---- MODULE Spec2Model ----
(***************************************************************************)
(* A model of zipfix.py: the signature scanner (find_file_signatures), the *)
(* header field extractor (extract_filename_from_header), the repair pass  *)
(* (repair_zip) and the command-line driver (main).                        *)
(*                                                                         *)
(* A file is a sequence of bytes (integers 0..255).  Python offsets are    *)
(* zero-based; TLA+ sequences are one-based, so byte p of d is d[p + 1].   *)
(***************************************************************************)
EXTENDS Integers, Sequences, FiniteSets, TLC

VARIABLES
    data,                \* the bytes of the input file (f.read())
    origin,              \* how the input was produced: its kind and, for an archive, its entries
    pc,                  \* position inside repair_zip
    offset,              \* find_file_signatures: the scan cursor
    local_headers,       \* signatures['local_headers']
    central_dir_headers, \* signatures['central_dir_headers']
    end_of_central_dir,  \* signatures['end_of_central_dir'] (None when absent)
    i,                   \* repair_zip: the index of enumerate(...)
    filename_length,     \* repair_zip: the local variable filename_length
    created,             \* whether the output container has been created
    out,                 \* the entries written to the output container, in order
    log,                 \* one diagnostic per processed entry, in order
    ret,                 \* repair_zip's return value
    mpc,                 \* position inside main
    extract_only,        \* args.extract_only
    repair_only,         \* args.repair_only
    path_exists,         \* os.path.exists(args.zip_file)
    success,             \* main: the local variable success
    calls,               \* main: the collaborators invoked so far, in order
    exit_code            \* main's return value

vars == <<data, origin, pc, offset, local_headers, central_dir_headers,
          end_of_central_dir, i, filename_length, created, out, log, ret,
          mpc, extract_only, repair_only, path_exists, success, calls, exit_code>>

scanVars == <<offset, local_headers, central_dir_headers, end_of_central_dir>>
loopVars == <<i, filename_length, created, out, log, ret>>
mainVars == <<mpc, extract_only, repair_only, path_exists, success, calls, exit_code>>

----------------------------------------------------------------------------
(* Bounds of the model. *)

\* the largest number of pieces (local entries or header stubs) of a generated archive
MaxEntries == 3

\* the largest length of a raw buffer over the signature alphabet
MaxRawLen == 5

----------------------------------------------------------------------------
(* Program constants. *)

LOCAL_FILE_HEADER == <<80, 75, 3, 4>>

CENTRAL_DIR_HEADER == <<80, 75, 1, 2>>

END_OF_CENTRAL_DIR == <<80, 75, 5, 6>>

\* 1024*1024, the bound of the last-resort span
FallbackMax == 1048576

\* Python's None / the -1 of bytes.find
None == -1

\* a local variable that has not been assigned yet
Unbound == -2

\* U+FFFD, what errors='replace' substitutes
ReplacementChar == 65533

----------------------------------------------------------------------------
(* Byte-level helpers. *)

Min(a, b) == IF a <= b THEN a ELSE b

\* d[a:b] for 0 <= a, 0 <= b: clipped to the buffer, empty when a >= b
Slice(d, a, b) ==
    LET e == Min(b, Len(d))
    IN  IF a >= e THEN <<>> ELSE SubSeq(d, a + 1, e)

\* whether the bytes of sig stand at position p of d
MatchAt(d, sig, p) ==
    /\ p >= 0
    /\ p + Len(sig) <= Len(d)
    /\ SubSeq(d, p + 1, p + Len(sig)) = sig

\* d.find(sig, start): the lowest match at or after start, or -1
Find(d, sig, start) ==
    LET hits == {p \in start..(Len(d) - Len(sig)) : MatchAt(d, sig, p)}
    IN  IF hits = {} THEN None
        ELSE CHOOSE p \in hits : \A q \in hits : p <= q

\* d.rfind(sig): the highest match, or -1
RFind(d, sig) ==
    LET hits == {p \in 0..(Len(d) - Len(sig)) : MatchAt(d, sig, p)}
    IN  IF hits = {} THEN None
        ELSE CHOOSE p \in hits : \A q \in hits : q <= p

\* struct.unpack succeeds only on a slice of exactly n bytes
CanUnpack(d, a, n) == a + n <= Len(d)

\* struct.unpack('<H', d[a:a+2])[0]
UnpackH(d, a) == d[a + 1] + 256 * d[a + 2]

\* struct.unpack('<I', d[a:a+4])[0]
UnpackI(d, a) ==
    d[a + 1] + 256 * d[a + 2] + 65536 * d[a + 3] + 16777216 * d[a + 4]

----------------------------------------------------------------------------
(* bytes.decode('utf-8', errors='replace'): a text is a sequence of code   *)
(* points; every maximal ill-formed subsequence becomes one U+FFFD.        *)

IsCont(c) == c >= 128 /\ c <= 191

\* the number of bytes of the sequence a lead byte announces (0: not a lead byte)
SeqLen(c) ==
    IF c < 128 THEN 1
    ELSE IF c >= 194 /\ c <= 223 THEN 2
    ELSE IF c >= 224 /\ c <= 239 THEN 3
    ELSE IF c >= 240 /\ c <= 244 THEN 4
    ELSE 0

\* the range the second byte of a sequence led by c must lie in
SecondLo(c) == IF c = 224 THEN 160 ELSE IF c = 240 THEN 144 ELSE 128

SecondHi(c) == IF c = 237 THEN 159 ELSE IF c = 244 THEN 143 ELSE 191

\* how many bytes at position p (one-based) form a well-formed prefix of a sequence
GoodPrefix(b, p) ==
    LET c == b[p]
        n == SeqLen(c)
        ok2 == p + 1 <= Len(b) /\ b[p + 1] >= SecondLo(c) /\ b[p + 1] <= SecondHi(c)
        ok3 == ok2 /\ p + 2 <= Len(b) /\ IsCont(b[p + 2])
        ok4 == ok3 /\ p + 3 <= Len(b) /\ IsCont(b[p + 3])
    IN  IF n <= 1 THEN 1
        ELSE IF ~ok2 THEN 1
        ELSE IF n = 2 THEN 2
        ELSE IF ~ok3 THEN 2
        ELSE IF n = 3 THEN 3
        ELSE IF ~ok4 THEN 3
        ELSE 4

\* the code point of the well-formed sequence of n bytes at position p
CodePoint(b, p, n) ==
    IF n = 1 THEN b[p]
    ELSE IF n = 2 THEN (b[p] - 192) * 64 + (b[p + 1] - 128)
    ELSE IF n = 3 THEN (b[p] - 224) * 4096 + (b[p + 1] - 128) * 64 + (b[p + 2] - 128)
    ELSE (b[p] - 240) * 262144 + (b[p + 1] - 128) * 4096
         + (b[p + 2] - 128) * 64 + (b[p + 3] - 128)

RECURSIVE DecodeFrom(_, _)
DecodeFrom(b, p) ==
    IF p > Len(b) THEN <<>>
    ELSE LET n == SeqLen(b[p])
             g == GoodPrefix(b, p)
         IN  IF n >= 1 /\ g = n
             THEN <<CodePoint(b, p, n)>> \o DecodeFrom(b, p + n)
             ELSE <<ReplacementChar>> \o DecodeFrom(b, p + g)

Decode(b) == DecodeFrom(b, 1)

\* str(n) for n >= 0, as code points
RECURSIVE Digits(_)
Digits(n) == IF n < 10 THEN <<48 + n>> ELSE Digits(n \div 10) \o <<48 + (n % 10)>>

\* f"recovered_file_{i}.bin"
SynthName(n) ==
    <<114, 101, 99, 111, 118, 101, 114, 101, 100, 95, 102, 105, 108, 101, 95>>
    \o Digits(n) \o <<46, 98, 105, 110>>

----------------------------------------------------------------------------
(* The inputs: files laid out as ZIP archives (local file headers with     *)
(* their payloads, optionally a central directory and an end record),      *)
(* damaged variants of them, and short raw buffers over the signature      *)
(* bytes.                                                                  *)

LE16(n) == <<n % 256, (n \div 256) % 256>>

LE32(n) == <<n % 256, (n \div 256) % 256, (n \div 65536) % 256, (n \div 16777216) % 256>>

\* the 30 fixed bytes of a local file header, then the name and the extra field
LocalHeader(p) ==
    LOCAL_FILE_HEADER \o <<20, 0>> \o <<0, 0>> \o <<0, 0>> \o <<0, 0, 33, 0>>
    \o p.crc \o LE32(p.csize) \o LE32(Len(p.payload))
    \o LE16(Len(p.name)) \o LE16(Len(p.extra)) \o p.name \o p.extra

\* a piece of a file: a local header (or only its first p.keep bytes) and its payload
PieceBytes(p) ==
    IF p.keep = 0 THEN LocalHeader(p) \o p.payload
    ELSE SubSeq(LocalHeader(p), 1, p.keep)

\* entries as a standard writer lays them out: the declared size is the payload's
GoodPieces ==
    { [name |-> <<97>>, extra |-> <<>>, payload |-> <<7, 8>>,
       crc |-> <<10, 12, 67, 0>>, csize |-> 2, keep |-> 0],
      [name |-> <<98, 98>>, extra |-> <<7, 0, 0, 0>>, payload |-> <<9>>,
       crc |-> <<41, 87, 222, 171>>, csize |-> 1, keep |-> 0] }

\* damaged or degenerate entries: an empty name with a declared size of zero, a
\* name that is not UTF-8 with a declared size past the end of any file, and a
\* header of which only the signature is left
BadPieces ==
    { [name |-> <<>>, extra |-> <<>>, payload |-> <<7>>,
       crc |-> <<46, 122, 102, 76>>, csize |-> 0, keep |-> 0],
      [name |-> <<98, 255>>, extra |-> <<>>, payload |-> <<>>,
       crc |-> <<0, 0, 0, 0>>, csize |-> 700, keep |-> 0],
      [name |-> <<>>, extra |-> <<>>, payload |-> <<>>,
       crc |-> <<0, 0, 0, 0>>, csize |-> 0, keep |-> 4] }

Pieces == GoodPieces \cup BadPieces

\* the sequences of at most m pieces
PieceSeqs(m) == UNION {[1..n -> Pieces] : n \in 0..m}

RECURSIVE Concat(_)
Concat(ss) == IF ss = <<>> THEN <<>> ELSE Head(ss) \o Concat(Tail(ss))

LocalPart(ps) == Concat([k \in 1..Len(ps) |-> PieceBytes(ps[k])])

\* the offset at which piece k of ps starts
PieceOffset(ps, k) == Len(LocalPart(SubSeq(ps, 1, k - 1)))

\* one central directory header: 46 fixed bytes, then the name
CentralHeader(p, at) ==
    CENTRAL_DIR_HEADER \o <<20, 3>> \o <<20, 0>> \o <<0, 0>> \o <<0, 0>> \o <<0, 0, 33, 0>>
    \o p.crc \o LE32(p.csize) \o LE32(Len(p.payload))
    \o LE16(Len(p.name)) \o LE16(0) \o LE16(0) \o LE16(0) \o LE16(0)
    \o <<0, 0, 128, 1>> \o LE32(at) \o p.name

CentralDirectory(ps) ==
    Concat([k \in 1..Len(ps) |-> CentralHeader(ps[k], PieceOffset(ps, k))])

\* the end-of-central-directory record: 22 bytes
EndRecord(ps) ==
    END_OF_CENTRAL_DIR \o LE16(0) \o LE16(0) \o LE16(Len(ps)) \o LE16(Len(ps))
    \o LE32(Len(CentralDirectory(ps))) \o LE32(Len(LocalPart(ps))) \o LE16(0)

Tails == {"none", "directory", "junk"}

TailBytes(ps, tail) ==
    IF tail = "directory" THEN CentralDirectory(ps) \o EndRecord(ps)
    ELSE IF tail = "junk" THEN <<80, 75>>
    ELSE <<>>

\* how many bytes a truncation removes from the end of the file
Cuts == {0, 4, 27}

Truncate(d, cut) == IF cut >= Len(d) THEN <<>> ELSE SubSeq(d, 1, Len(d) - cut)

FileBytes(ps, tail, cut) == Truncate(LocalPart(ps) \o TailBytes(ps, tail), cut)

\* a file is a well-formed, uncorrupted archive when a standard writer produced it
WellFormed(ps, tail, cut) ==
    /\ Len(ps) >= 1
    /\ \A k \in 1..Len(ps) : ps[k] \in GoodPieces
    /\ tail = "directory"
    /\ cut = 0

RawAlphabet == {80, 75, 3, 4}

RawBuffers == UNION {[1..n -> RawAlphabet] : n \in 0..MaxRawLen}

\* the archive-shaped files of at most m pieces, each with a note of how it was made
ArchiveInputs(m) ==
    { [data |-> FileBytes(ps, tail, cut),
       origin |-> [kind |-> IF WellFormed(ps, tail, cut) THEN "wellformed" ELSE "damaged",
                   pieces |-> ps]] :
        ps \in PieceSeqs(m), tail \in Tails, cut \in Cuts }

\* the files repair_zip is run on
Inputs ==
    ArchiveInputs(MaxEntries)
    \cup { [data |-> b, origin |-> [kind |-> "raw", pieces |-> <<>>]] : b \in RawBuffers }

----------------------------------------------------------------------------
(* extract_filename_from_header and the body of repair_zip's loop. *)

\* extract_filename_from_header(d, o): None when the length field cannot be unpacked
ExtractFilename(d, o) ==
    IF ~CanUnpack(d, o + 26, 2) THEN [ok |-> FALSE, text |-> <<>>]
    ELSE [ok |-> TRUE, text |-> Decode(Slice(d, o + 30, o + 30 + UnpackH(d, o + 26)))]

\* "if not filename": None and the empty text both get the synthesized name
ResolveName(d, o, n) ==
    LET f == ExtractFilename(d, o)
    IN  IF ~f.ok \/ f.text = <<>> THEN SynthName(n) ELSE f.text

\* the first header of lh after o, or None
NextOffset(lh, o) ==
    LET later == {k \in 1..Len(lh) : lh[k] > o}
    IN  IF later = {} THEN None
        ELSE lh[CHOOSE k \in later : \A m \in later : k <= m]

\* the assignment to filename_length at lines 102 and 108: it happens when the
\* unpack succeeds, whatever the following lines do
AssignLength(d, o, fl) ==
    IF CanUnpack(d, o + 26, 2) THEN UnpackH(d, o + 26) ELSE fl

\* whether both length fields of the header at o can be unpacked
LengthsReadable(d, o) == CanUnpack(d, o + 26, 2) /\ CanUnpack(d, o + 28, 2)

\* OwnStart with the extra field left out of the sum
OwnStartNoExtra(d, o) == o + 30 + UnpackH(d, o + 26)

\* file_data_offset of lines 104 and 110: both lengths read from the header at o
OwnStart(d, o) == o + 30 + UnpackH(d, o + 26) + UnpackH(d, o + 28)

\* lines 102-105 (next = None: at most 1 MiB) and 108-111 (up to the next
\* header); raises when a length field is short
OwnSpan(d, o, next) ==
    IF ~LengthsReadable(d, o) THEN [raised |-> TRUE, payload |-> <<>>]
    ELSE LET start == OwnStart(d, o)
             stop == IF next = None THEN start + FallbackMax ELSE next
         IN  [raised |-> FALSE, payload |-> Slice(d, start, stop)]

\* lines 96-99: the declared size and the extra length of the header at o, and
\* filename_length as the previous iterations left it; raises when a field is
\* short or filename_length was never assigned
DeclaredSpan(d, o, fl) ==
    IF ~CanUnpack(d, o + 18, 4) \/ ~CanUnpack(d, o + 28, 2) \/ fl = Unbound
    THEN [raised |-> TRUE, payload |-> <<>>]
    ELSE LET start == o + 30 + fl + UnpackH(d, o + 28)
         IN  [raised |-> FALSE, payload |-> Slice(d, start, start + UnpackI(d, o + 18))]

\* lines 93-105: the last entry found
LastSpan(d, o, fl) ==
    LET declared == DeclaredSpan(d, o, fl)
        guess == OwnSpan(d, o, None)
    IN  IF ~declared.raised
        THEN [raised |-> FALSE, payload |-> declared.payload, fl |-> fl]
        ELSE [raised |-> guess.raised, payload |-> guess.payload,
              fl |-> AssignLength(d, o, fl)]

\* lines 106-111: an entry followed by another header
MiddleSpan(d, o, next, fl) ==
    LET between == OwnSpan(d, o, next)
    IN  [raised |-> between.raised, payload |-> between.payload,
         fl |-> AssignLength(d, o, fl)]

\* Body with the assignment to filename_length lost when the iteration fails
BodyKeepsLengthOnFailure(d, lh, n, fl, wok) ==
    LET o == lh[n + 1]
        next == NextOffset(lh, o)
        span == IF next = None THEN LastSpan(d, o, fl) ELSE MiddleSpan(d, o, next, fl)
        status == IF span.raised THEN "error"
                  ELSE IF wok THEN "recovered" ELSE "write_error"
    IN  [fl |-> IF status = "recovered" THEN span.fl ELSE fl,
         status |-> status,
         offset |-> o,
         entry |-> [name |-> ResolveName(d, o, n), payload |-> span.payload, index |-> n]]

\* lines 79-117, one iteration: entry n (zero-based) of lh, with filename_length
\* as found (fl) and the outcome of new_zip.writestr (wok)
Body(d, lh, n, fl, wok) ==
    LET o == lh[n + 1]
        next == NextOffset(lh, o)
        span == IF next = None THEN LastSpan(d, o, fl) ELSE MiddleSpan(d, o, next, fl)
        status == IF span.raised THEN "error"
                  ELSE IF wok THEN "recovered" ELSE "write_error"
    IN  [fl |-> span.fl,
         status |-> status,
         offset |-> o,
         entry |-> [name |-> ResolveName(d, o, n), payload |-> span.payload, index |-> n]]

\* Advance one byte too far
AdvanceTooFar(p) == p + 5

\* lines 33 and 42: the next search starts past the signature just found
Advance(p) == p + 4

\* lines 78-117 as a whole, from entry n on, when no writestr raises
RECURSIVE RunFrom(_, _, _, _)
RunFrom(d, lh, n, fl) ==
    IF n >= Len(lh) THEN <<>>
    ELSE LET b == Body(d, lh, n, fl, TRUE)
         IN  <<b>> \o RunFrom(d, lh, n + 1, b.fl)

\* the iterations of the loop over the headers found, when no writestr raises
CleanRun(d, lh) == RunFrom(d, lh, 0, Unbound)

----------------------------------------------------------------------------
(* repair_zip, with find_file_signatures inlined at its call. *)

\* lines 60-68 and 17-27: the file is read and the scan for local headers starts
RepairStart ==
    /\ pc = "start"
    /\ pc' = "scan_local"
    /\ offset' = 0
    /\ local_headers' = <<>>
    /\ central_dir_headers' = <<>>
    /\ end_of_central_dir' = None
    /\ UNCHANGED <<data, origin, loopVars, mainVars>>

\* NoHeaders taking a single header for none
NoHeadersOffByOne(lh) == Len(lh) <= 1

\* line 70: "not signatures['local_headers']"
NoHeaders(lh) == lh = <<>>

\* lines 28-33, one round of the loop that finds a local header
ScanLocalHit ==
    /\ pc = "scan_local"
    /\ Find(data, LOCAL_FILE_HEADER, offset) # None
    /\ local_headers' = Append(local_headers, Find(data, LOCAL_FILE_HEADER, offset))
    /\ offset' = Advance(Find(data, LOCAL_FILE_HEADER, offset))
    /\ UNCHANGED <<data, origin, pc, central_dir_headers, end_of_central_dir,
                   loopVars, mainVars>>

\* lines 29-31 and 36: no further local header; the scan for central headers starts
ScanLocalEnd ==
    /\ pc = "scan_local"
    /\ Find(data, LOCAL_FILE_HEADER, offset) = None
    /\ pc' = "scan_central"
    /\ offset' = 0
    /\ UNCHANGED <<data, origin, local_headers, central_dir_headers,
                   end_of_central_dir, loopVars, mainVars>>

\* lines 37-42, one round of the loop that finds a central directory header
ScanCentralHit ==
    /\ pc = "scan_central"
    /\ Find(data, CENTRAL_DIR_HEADER, offset) # None
    /\ central_dir_headers' =
           Append(central_dir_headers, Find(data, CENTRAL_DIR_HEADER, offset))
    /\ offset' = Advance(Find(data, CENTRAL_DIR_HEADER, offset))
    /\ UNCHANGED <<data, origin, pc, local_headers, end_of_central_dir,
                   loopVars, mainVars>>

\* lines 38-40 and 44-49: no further central header; the end record is looked
\* up from the back and the signatures are returned
ScanCentralEnd ==
    /\ pc = "scan_central"
    /\ Find(data, CENTRAL_DIR_HEADER, offset) = None
    /\ offset' = RFind(data, END_OF_CENTRAL_DIR)
    /\ end_of_central_dir' = RFind(data, END_OF_CENTRAL_DIR)
    /\ pc' = "check"
    /\ UNCHANGED <<data, origin, local_headers, central_dir_headers,
                   loopVars, mainVars>>

\* lines 70-72: nothing to reconstruct
RepairNoHeaders ==
    /\ pc = "check"
    /\ NoHeaders(local_headers)
    /\ ret' = "False"
    /\ pc' = "returned"
    /\ UNCHANGED <<data, origin, scanVars, i, filename_length, created, out, log,
                   mainVars>>

\* lines 74-78: the output container is created and the loop starts
RepairCreate ==
    /\ pc = "check"
    /\ ~NoHeaders(local_headers)
    /\ created' = TRUE
    /\ i' = 0
    /\ pc' = "loop"
    /\ UNCHANGED <<data, origin, scanVars, filename_length, out, log, ret, mainVars>>

\* the effect of one iteration whose result is b
Record(b) ==
    /\ filename_length' = b.fl
    /\ out' = IF b.status = "recovered" THEN Append(out, b.entry) ELSE out
    /\ log' = Append(log, [offset |-> b.offset, status |-> b.status])

\* lines 78-117, one iteration; new_zip.writestr may raise
ProcessEntry ==
    /\ pc = "loop"
    /\ i < Len(local_headers)
    /\ \E wok \in BOOLEAN : Record(Body(data, local_headers, i, filename_length, wok))
    /\ i' = i + 1
    /\ UNCHANGED <<data, origin, pc, scanVars, created, ret, mainVars>>

\* lines 119-120: the loop is over
RepairFinish ==
    /\ pc = "loop"
    /\ i = Len(local_headers)
    /\ ret' = "True"
    /\ pc' = "returned"
    /\ UNCHANGED <<data, origin, scanVars, i, filename_length, created, out, log,
                   mainVars>>

NextRepair ==
    \/ RepairStart
    \/ ScanLocalHit
    \/ ScanLocalEnd
    \/ ScanCentralHit
    \/ ScanCentralEnd
    \/ RepairNoHeaders
    \/ RepairCreate
    \/ ProcessEntry
    \/ RepairFinish

\* the state of repair_zip before it is called
RepairIdle(p) ==
    /\ pc = p
    /\ offset = 0
    /\ local_headers = <<>>
    /\ central_dir_headers = <<>>
    /\ end_of_central_dir = None
    /\ i = 0
    /\ filename_length = Unbound
    /\ created = FALSE
    /\ out = <<>>
    /\ log = <<>>
    /\ ret = "pending"

\* main is not running
MainAbsent ==
    /\ mpc = "absent"
    /\ extract_only = FALSE
    /\ repair_only = FALSE
    /\ path_exists = TRUE
    /\ success = FALSE
    /\ calls = <<>>
    /\ exit_code = None

\* repair_zip called on a file
Init ==
    /\ \E f \in Inputs : data = f.data /\ origin = f.origin
    /\ RepairIdle("start")
    /\ MainAbsent

Spec == Init /\ [][NextRepair]_vars

\* the steps of find_file_signatures
ScanNext ==
    \/ RepairStart
    \/ ScanLocalHit
    \/ ScanLocalEnd
    \/ ScanCentralHit
    \/ ScanCentralEnd

\* the program is sequential: a step of the scan that can be taken is taken
FairSpec == Spec /\ WF_vars(ScanNext)

----------------------------------------------------------------------------
(* main. *)

\* whether d holds a whole end-of-central-directory record (22 bytes), which
\* the standard reader needs to open a file
HasEndRecord(d) ==
    /\ RFind(d, END_OF_CENTRAL_DIR) # None
    /\ RFind(d, END_OF_CENTRAL_DIR) + 22 <= Len(d)

\* extract_files: True when zipfile.ZipFile opens the file, False when opening
\* raises, as it always does on a file without an end record
ExtractOutcomes(d) == IF HasEndRecord(d) THEN BOOLEAN ELSE {FALSE}

\* ExitStatus with the two statuses exchanged
ExitStatusInverted(s) == IF s THEN 1 ELSE 0

\* line 189: "return 0 if success else 1"
ExitStatus(s) == IF s THEN 0 ELSE 1

Call(op, result) == [op |-> op, result |-> result]

Exit(code) ==
    /\ mpc' = "exited"
    /\ exit_code' = code

\* lines 153-161: the checks of the arguments
MainCheckArgs ==
    /\ mpc = "start"
    /\ IF ~path_exists \/ (extract_only /\ repair_only)
       THEN Exit(1) /\ UNCHANGED success
       ELSE /\ success' = FALSE
            /\ mpc' = IF repair_only THEN "repair_gate" ELSE "direct"
            /\ UNCHANGED exit_code
    /\ UNCHANGED <<data, origin, pc, scanVars, loopVars, extract_only, repair_only,
                   path_exists, calls>>

\* lines 164-172: direct extraction
MainDirect ==
    /\ mpc = "direct"
    /\ \E r \in ExtractOutcomes(data) :
         /\ calls' = Append(calls, Call("extract_direct", IF r THEN "True" ELSE "False"))
         /\ success' = r
         /\ IF r /\ extract_only
            THEN Exit(0)
            ELSE mpc' = "repair_gate" /\ UNCHANGED exit_code
    /\ UNCHANGED <<data, origin, pc, scanVars, loopVars, extract_only, repair_only,
                   path_exists>>

\* lines 175 and 189: with --extract-only the repair is skipped
MainSkipRepair ==
    /\ mpc = "repair_gate"
    /\ extract_only
    /\ Exit(ExitStatus(success))
    /\ UNCHANGED <<data, origin, pc, scanVars, loopVars, extract_only, repair_only,
                   path_exists, success, calls>>

\* lines 175-178: repair_zip is called
MainCallRepair ==
    /\ mpc = "repair_gate"
    /\ ~extract_only
    /\ calls' = Append(calls, Call("repair_zip", "called"))
    /\ mpc' = "in_repair"
    /\ pc' = "start"
    /\ UNCHANGED <<data, origin, scanVars, loopVars, extract_only, repair_only,
                   path_exists, success, exit_code>>

\* lines 178-189: repair_zip has returned
MainAfterRepair ==
    /\ mpc = "in_repair"
    /\ pc = "returned"
    /\ IF ret = "True" /\ ~repair_only
       THEN \E r \in BOOLEAN :
              /\ calls' = Append(calls, Call("extract_fixed", IF r THEN "True" ELSE "False"))
              /\ success' = (r \/ success)
              /\ Exit(ExitStatus(r \/ success))
       ELSE /\ Exit(ExitStatus(success))
            /\ UNCHANGED <<success, calls>>
    /\ UNCHANGED <<data, origin, pc, scanVars, loopVars, extract_only, repair_only,
                   path_exists>>

NextMain ==
    \/ MainCheckArgs
    \/ MainDirect
    \/ MainSkipRepair
    \/ MainCallRepair
    \/ MainAfterRepair
    \/ NextRepair

\* the files main is run on
MainInputs == ArchiveInputs(1)

\* main started on a path, which names a file or nothing
InitMain ==
    /\ path_exists \in BOOLEAN
    /\ IF path_exists
       THEN \E f \in MainInputs : data = f.data /\ origin = f.origin
       ELSE data = <<>> /\ origin = [kind |-> "missing", pieces |-> <<>>]
    /\ extract_only \in BOOLEAN
    /\ repair_only \in BOOLEAN
    /\ mpc = "start"
    /\ success = FALSE
    /\ calls = <<>>
    /\ exit_code = None
    /\ RepairIdle("idle")

SpecMain == InitMain /\ [][NextMain]_vars

----------------------------------------------------------------------------
(* What the properties speak of. *)

\* the positions of d at which the four bytes 50 4B 03 04 stand
SigPositions(d) ==
    {p \in 0..(Len(d) - 4) :
        d[p + 1] = 80 /\ d[p + 2] = 75 /\ d[p + 3] = 3 /\ d[p + 4] = 4}

Returned == pc = "returned"

ScanOver == pc \notin {"idle", "start", "scan_local"}

\* payload_start of the header at o, read from that header's own fields
PayloadStart(o) ==
    o + 30 + (data[o + 27] + 256 * data[o + 28]) + (data[o + 29] + 256 * data[o + 30])

\* the declared compressed size of the header at o
DeclaredSize(o) ==
    data[o + 19] + 256 * data[o + 20] + 65536 * data[o + 21] + 16777216 * data[o + 22]

\* the 30 fixed bytes of the header at o lie inside the file
FixedFieldsReadable(o) == o + 30 <= Len(data)

\* the bytes of the file from a (inclusive) to b (exclusive), b within the file
Bytes(a, b) == IF a >= b THEN <<>> ELSE SubSeq(data, a + 1, b)

\* the entry of index n was processed, and new_zip.writestr did not raise for it
ProcessedNoWriteError(n) == n < Len(log) /\ log[n + 1].status # "write_error"

\* an entry of index n was written to the output, with payload p
WrittenWith(n, p) == \E k \in 1..Len(out) : out[k].index = n /\ out[k].payload = p

\* an entry of index n was written to the output, under the name nm
WrittenAs(n, nm) == \E k \in 1..Len(out) : out[k].index = n /\ out[k].name = nm

\* no new_zip.writestr raised in the run so far
NoWriteError == \A k \in 1..Len(log) : log[k].status # "write_error"

LastIndex == Len(local_headers) - 1

----------------------------------------------------------------------------
(* C1 *)

\* C1: round trip.  When repair_zip has run on a well-formed, uncorrupted
\* archive of k >= 1 entries and no write to the output failed, the output holds exactly k
\* entries, the i-th with the name and the payload bytes of the i-th original
\* entry, the last one included.
C1_RoundTrip ==
    (Returned /\ origin.kind = "wellformed" /\ NoWriteError)
    => out = [k \in 1..Len(origin.pieces) |->
                 [name |-> origin.pieces[k].name,
                  payload |-> origin.pieces[k].payload,
                  index |-> k - 1]]

----------------------------------------------------------------------------
(* C2 *)

\* C2: declared-size policy for the last entry.  In a run in which no write to
\* the output failed, when the last header's fixed
\* fields are readable and payload_start + compressed_size lies within the
\* file, the payload written for it is exactly
\* [payload_start, payload_start + compressed_size), all fields read from that
\* header.
C2_DeclaredSizeForLast ==
    (Returned /\ created /\ NoWriteError
        /\ FixedFieldsReadable(local_headers[LastIndex + 1]))
    => LET o == local_headers[LastIndex + 1]
           start == PayloadStart(o)
       IN  start + DeclaredSize(o) <= Len(data)
           => WrittenWith(LastIndex, Bytes(start, start + DeclaredSize(o)))

----------------------------------------------------------------------------
(* C3 *)

\* the smallest signature position after o
NextSignature(o) ==
    LET later == {p \in SigPositions(data) : p > o}
    IN  CHOOSE p \in later : \A q \in later : p <= q

\* C3: next-offset policy.  For every processed header that is not the last,
\* whose fixed fields are readable, the entry is written (unless the write
\* itself fails) with the payload [payload_start, next_offset), next_offset
\* the smallest signature position after it and payload_start read from its
\* own header, whatever its declared size; the payload is empty, and nothing
\* is raised, when payload_start >= next_offset.
C3_NextOffsetPolicy ==
    \A n \in 0..(Len(log) - 1) :
        (n < LastIndex /\ FixedFieldsReadable(local_headers[n + 1])
            /\ ProcessedNoWriteError(n))
        => LET o == local_headers[n + 1]
           IN  /\ log[n + 1].status = "recovered"
               /\ WrittenWith(n, Bytes(PayloadStart(o), NextSignature(o)))

\* a header immediately followed by the next signature was written with an
\* empty payload, and another entry was cut at the next header although its
\* declared size says otherwise
C3_Witness ==
    /\ Returned
    /\ \E n \in 0..(LastIndex - 1) :
         /\ local_headers[n + 2] = local_headers[n + 1] + 4
         /\ FixedFieldsReadable(local_headers[n + 1])
         /\ WrittenWith(n, <<>>)
    /\ \E n \in 0..(LastIndex - 1) :
         /\ FixedFieldsReadable(local_headers[n + 1])
         /\ \E k \in 1..Len(out) :
              /\ out[k].index = n
              /\ out[k].payload # <<>>
              /\ Len(out[k].payload) # DeclaredSize(local_headers[n + 1])

----------------------------------------------------------------------------
(* C4 *)

\* C4: repair_zip returns failure, with no output container, exactly when the
\* file holds no local-header signature; with at least one signature the
\* container is created and repair_zip returns success, whatever was written.
C4_FailureIffNoSignature ==
    /\ created => SigPositions(data) # {}
    /\ Returned =>
         /\ (ret = "False" /\ ~created) <=> (SigPositions(data) = {})
         /\ SigPositions(data) # {} => (created /\ ret = "True")

\* success with a created container and not one entry written
C4_Witness ==
    /\ Returned
    /\ ret = "True"
    /\ created
    /\ out = <<>>
    /\ Len(log) >= 2

----------------------------------------------------------------------------
(* C5 *)

\* C5: scanner completeness.  The offsets collected are always strictly
\* ascending signature positions; once the scan for local headers is over they
\* are exactly the positions at which 50 4B 03 04 stands; and that scan ends.
C5_ScannerComplete ==
    /\ [](/\ \A k \in 1..Len(local_headers) : local_headers[k] \in SigPositions(data)
          /\ \A k \in 1..(Len(local_headers) - 1) : local_headers[k] < local_headers[k + 1]
          /\ ScanOver =>
               {local_headers[k] : k \in 1..Len(local_headers)} = SigPositions(data))
    /\ <>ScanOver

\* the scan is over and has found two signatures that touch
C5_Witness ==
    /\ ScanOver
    /\ \E k \in 1..(Len(local_headers) - 1) : local_headers[k + 1] = local_headers[k] + 4

----------------------------------------------------------------------------
(* C6 *)

\* C6: in a run in which no write to the output failed, a header whose fixed
\* fields cannot be read in full, being too close to the end of the file, still
\* gets an entry, named recovered_file_<i>.bin.
C6_UnreadableHeaderRecovered ==
    (Returned /\ created /\ NoWriteError)
    => \A n \in 0..LastIndex :
         ~FixedFieldsReadable(local_headers[n + 1]) => WrittenAs(n, SynthName(n))

----------------------------------------------------------------------------
(* C9 *)

\* C9: boundary overrun on the last entry.  In a run in which no write to the
\* output failed, when the last header's declared
\* size ends past the end of the file, the payload written starts at
\* payload_start, is at most 1,048,576 bytes long and is clipped to the end of
\* the file.
C9_OverrunFallsBack ==
    (Returned /\ created /\ NoWriteError
        /\ FixedFieldsReadable(local_headers[LastIndex + 1]))
    => LET o == local_headers[LastIndex + 1]
           start == PayloadStart(o)
       IN  start + DeclaredSize(o) > Len(data)
           => WrittenWith(LastIndex, Bytes(start, Min(start + FallbackMax, Len(data))))

----------------------------------------------------------------------------
(* C10 *)

\* C10: containment and order.  The headers are processed one by one in
\* ascending order, each exactly once, all of them by the time repair_zip
\* returns; an entry is in the output exactly when its iteration succeeded,
\* the output is in ascending order of the source offsets, and what is written
\* for an entry is what a run without any write failure writes for it.
C10_ContainmentAndOrder ==
    LET clean == CleanRun(data, local_headers)
    IN  /\ Len(log) <= Len(local_headers)
        /\ \A k \in 1..Len(log) : log[k].offset = local_headers[k]
        /\ \A k \in 1..(Len(log) - 1) : log[k].offset < log[k + 1].offset
        /\ (Returned /\ created) => Len(log) = Len(local_headers)
        /\ \A k \in 1..(Len(out) - 1) : out[k].index < out[k + 1].index
        /\ \A n \in 0..(Len(log) - 1) :
             /\ (log[n + 1].status = "recovered")
                    <=> (\E k \in 1..Len(out) : out[k].index = n)
             /\ (log[n + 1].status = "error") <=> (clean[n + 1].status = "error")
        /\ \A k \in 1..Len(out) :
             /\ out[k].index < Len(log)
             /\ out[k] = clean[out[k].index + 1].entry

\* a write failed for one entry, and a later entry was written with a payload
C10_Witness ==
    /\ Returned
    /\ \E n \in 0..(Len(log) - 1) :
         /\ log[n + 1].status = "write_error"
         /\ \E k \in 1..Len(out) : out[k].index > n /\ out[k].payload # <<>>

----------------------------------------------------------------------------
(* C7 *)

\* C7: main calls repair_zip only when direct extraction reported failure or
\* was bypassed with --repair-only.
C7_RepairOnlyAfterFailure ==
    \A k \in 1..Len(calls) :
        calls[k].op = "repair_zip"
        => \/ repair_only
           \/ \E j \in 1..(k - 1) : calls[j] = Call("extract_direct", "False")

----------------------------------------------------------------------------
(* C8 *)

\* C8: main's exit status is 0 exactly when direct extraction succeeded or the
\* extraction of the repaired archive succeeded, and 1 otherwise; with both
\* flags set or a missing input it is 1 and no collaborator was invoked.
C8_ExitStatus ==
    /\ mpc # "exited" => exit_code = None
    /\ mpc = "exited" =>
         /\ exit_code \in {0, 1}
         /\ exit_code = 0 <=>
              \E k \in 1..Len(calls) :
                  \/ calls[k] = Call("extract_direct", "True")
                  \/ /\ calls[k] = Call("extract_fixed", "True")
                     /\ \E j \in 1..(k - 1) : calls[j].op = "repair_zip"
         /\ (~path_exists \/ (extract_only /\ repair_only))
              => (exit_code = 1 /\ calls = <<>>)
    /\ (~path_exists \/ (extract_only /\ repair_only)) => (calls = <<>> /\ pc = "idle")

\* direct extraction failed, the repaired archive was extracted, exit status 0
C8_Witness ==
    /\ mpc = "exited"
    /\ exit_code = 0
    /\ calls = <<Call("extract_direct", "False"), Call("repair_zip", "called"),
                 Call("extract_fixed", "True")>>

====
